---- MODULE Spec2Model ----
(***************************************************************************)
(* FriendlyFire: the discovery loop (_updateMemory) and the rollover       *)
(* worker (_worker) of src/unnamed/part_000, sharing serviceMap,           *)
(* serviceIntervals and the _workerMutex flag.  Every `yield` of the two   *)
(* coroutines is a point where the other coroutine, the clock and the      *)
(* container runtime may take steps; the code between two yields is one    *)
(* atomic action.                                                          *)
(*                                                                         *)
(* Time is counted in units of five minutes: rolloverInterval = 30 min = 6,*)
(* initialDebounce = 5 min = 1, serviceRerollDistance = 5 min = 1.  The    *)
(* timers (2 s worker tick, 1 s / 5 s discovery sleeps) are far below one  *)
(* unit, so a timer may fire any number of times between two clock steps.  *)
(***************************************************************************)
EXTENDS Integers, Sequences, FiniteSets, TLC

\* ---- bounds of the model ----
MaxTime == 3
MaxEnv == 1
MaxCycleTime == 16

\* ---- program constants (unit: 5 minutes) ----
rolloverInterval == 6
initialDebounce == 1
serviceRerollDistance == 1

\* FF_SERVICES, lower-cased and split
services == {"s1", "s2"}

\* container ids the runtime may hold, and the compose service label of each
Ids == {"a", "b", "c", "d"}
Label(containerId) == IF containerId = "d" THEN "s2" ELSE "s1"

\* State.StartedAt reported by inspect(): every container was started before
\* the process (time 0)
StartedAt(containerId) ==
    IF containerId = "a" THEN 0 - 3
    ELSE IF containerId = "b" THEN 0 - 1
    ELSE IF containerId = "c" THEN 0 - 2
    ELSE 0 - 1

\* serviceIntervals[rootService] of a service that has no entry yet
Undefined == -1

VARIABLES
    now,              \* Date.now()
    existing,         \* the containers the runtime lists
    envCount,         \* number of changes of the runtime's container set so far
    workerMutex,      \* this._workerMutex
    serviceMap,       \* this._config.serviceMap: sequence of <<rootService, containerIds>>
    serviceIntervals, \* this._config.serviceIntervals
    u,                \* frame of the _updateMemory coroutine
    w,                \* frame of the _worker coroutine that is in progress
    ev,               \* the step taken last: <<operation, service>>
    uPrev,            \* <<due, at>> of the previous remap of this discovery pass
    wPrev,            \* <<due, at>> of the previous selection of this worker pass
    remapAt,          \* time of the last completed remap of each service
    calls,            \* the stop() and start() calls issued so far: <<method, containerId>>
    driftSeen,        \* per service, the discovered id set its last drift remap was for
    lastRemap         \* per service, the list its last remap committed

vars == <<now, existing, envCount, workerMutex, serviceMap, serviceIntervals,
          u, w, ev, uPrev, wPrev, remapAt, calls, driftSeen, lastRemap>>

\* ---- sequences and the Map ----
Range(s) == {s[k] : k \in 1..Len(s)}

MapHas(m, key) == \E k \in 1..Len(m) : m[k][1] = key

MapIndex(m, key) == CHOOSE k \in 1..Len(m) : m[k][1] = key

MapGet(m, key) == m[MapIndex(m, key)][2]

MapSet(m, key, val) ==
    IF MapHas(m, key)
    THEN [m EXCEPT ![MapIndex(m, key)] = <<key, val>>]
    ELSE Append(m, <<key, val>>)

\* ---- _sortContainersByAge ----
\* the comparator looks at a only: started > now ? -1 : started < now ? 1 : 0
AgeCompare(a, b, t) ==
    IF StartedAt(a) > t THEN 0 - 1
    ELSE IF StartedAt(a) < t THEN 1
    ELSE 0

\* insertion sort as engines use it for short arrays: an element moves left
\* past every tmp with comparefn(tmp, element) > 0
RECURSIVE InsertPos(_, _, _, _)
InsertPos(prefix, element, j, t) ==
    IF j >= 1 /\ AgeCompare(prefix[j], element, t) > 0
    THEN InsertPos(prefix, element, j - 1, t)
    ELSE j

InsertInto(prefix, element, t) ==
    LET j == InsertPos(prefix, element, Len(prefix), t)
    IN  SubSeq(prefix, 1, j) \o <<element>> \o SubSeq(prefix, j + 1, Len(prefix))

RECURSIVE InsertionSort(_, _, _)
InsertionSort(done, rest, t) ==
    IF rest = <<>> THEN done
    ELSE InsertionSort(InsertInto(done, Head(rest), t), Tail(rest), t)

\* a run-detecting merge sort leaves an array alone when no element compares
\* below its predecessor
IsAscendingRun(seq, t) ==
    \A k \in 1..(Len(seq) - 1) : AgeCompare(seq[k + 1], seq[k], t) >= 0

\* The comparator is not a consistent ordering, so the result of
\* Array.prototype.sort depends on the engine's algorithm: both are outcomes.
SortOutcomes(containerIds, t) ==
    {InsertionSort(<<>>, containerIds, t)}
        \cup (IF IsAscendingRun(containerIds, t) THEN {containerIds} ELSE {})

\* ---- the runtime's listContainers() ----
\* The runtime lists its containers by creation time, newest first; the ids
\* are named in one of the two creation orders.
RECURSIVE Filter(_, _)
Filter(seq, S) ==
    IF seq = <<>> THEN <<>>
    ELSE IF Head(seq) \in S THEN <<Head(seq)>> \o Filter(Tail(seq), S)
    ELSE Filter(Tail(seq), S)

Listings(S) ==
    {Filter(<<"d", "c", "b", "a">>, S), Filter(<<"a", "b", "c", "d">>, S)}

\* ---- _updateMemory: populate containers ----
RECURSIVE Populate(_, _)
Populate(listing, m) ==
    IF listing = <<>> THEN m
    ELSE LET containerId == Head(listing)
             rootService == Label(containerId)
             known == IF MapHas(m, rootService) THEN MapGet(m, rootService) ELSE <<>>
         IN  IF rootService \in services
             THEN Populate(Tail(listing),
                           MapSet(m, rootService,
                                  IF containerId \in Range(known) THEN known
                                  ELSE Append(known, containerId)))
             ELSE Populate(Tail(listing), m)

\* ---- frames ----
UFrame(pc) ==
    [pc |-> pc, first |-> FALSE, pos |-> 0, i |-> 0, serviceIndex |-> 0,
     rootService |-> "", containerIds |-> <<>>, serviceMap |-> <<>>]

WIdle ==
    [pc |-> "idle", pos |-> 0, i |-> 0, rootService |-> "",
     containerIds |-> <<>>, containerId |-> ""]

Init ==
    /\ now = 0
    /\ existing = {"a", "b", "d"}
    /\ envCount = 0
    /\ workerMutex = FALSE
    /\ serviceMap = <<>>
    /\ serviceIntervals = [s \in services |-> Undefined]
    /\ u = UFrame("list")
    /\ w = WIdle
    /\ ev = <<"init", "">>
    /\ uPrev = <<>>
    /\ wPrev = <<>>
    /\ remapAt = [s \in services |-> Undefined]
    /\ calls = <<>>
    /\ driftSeen = [s \in services |-> {}]
    /\ lastRemap = [s \in services |-> <<>>]


\* ---- _updateMemory ----
\* newContainerIds.some(containerId => !containerIds.includes(containerId))
IdsDiffer(newContainerIds, containerIds) ==
    \E k \in 1..Len(newContainerIds) : newContainerIds[k] \notin Range(containerIds)

\* variant: any difference between the two id sets counts as drift
DriftAt_AnyDifference(m, cand, p) ==
    /\ MapHas(cand, m[p][1])
    /\ Range(MapGet(cand, m[p][1])) # Range(m[p][2])

\* the test of lines 172-179 for the entry at position p of the Registry
DriftAt(m, cand, p) ==
    /\ MapHas(cand, m[p][1])
    /\ IdsDiffer(MapGet(cand, m[p][1]), m[p][2])

RECURSIVE NextDrift(_, _, _)
NextDrift(m, cand, p) ==
    IF p > Len(m) THEN 0
    ELSE IF DriftAt(m, cand, p) THEN p
    ELSE NextDrift(m, cand, p + 1)

\* while (this._workerMutex) yield thread_sleep(1000); yield listContainers()
StartIteration(mutex) == UFrame(IF mutex THEN "wait" ELSE "list")

\* the call _updateServiceMapping(i++, rootService, containerIds) for the
\* entry at position p, up to the yield inside _sortContainersByAge; the ids
\* passed are the ones the entry of this._config.serviceMap holds
RemapCall(first, p, i, m, cand) ==
    [pc |-> "inspect", first |-> first, pos |-> p, i |-> i + 1,
     serviceIndex |-> i, rootService |-> m[p][1], containerIds |-> m[p][2],
     serviceMap |-> cand]

\* the for-of loop from position p on, up to its next yield: the first-run
\* loop remaps every entry and then `continue`s, the other loop remaps the
\* entries that drifted and then sleeps 5000
ULoop(first, p, i, m, cand, mutex) ==
    IF first
    THEN IF p <= Len(m) THEN RemapCall(TRUE, p, i, m, <<>>)
         ELSE StartIteration(mutex)
    ELSE LET q == NextDrift(m, cand, p)
         IN  IF q = 0 THEN UFrame("sleep") ELSE RemapCall(FALSE, q, i, m, cand)

\* now + initialDebounce + serviceRerollDistance * serviceIndex
RemapDue(t, serviceIndex) ==
    t + initialDebounce + (serviceRerollDistance * serviceIndex)

\* variant: the candidate mapping becomes the Registry in every iteration
UListOk_Replace ==
    /\ u.pc = "list"
    /\ \E listing \in Listings(existing) :
          LET cand == Populate(listing, <<>>)
              first == Len(serviceMap) = 0
              nu == ULoop(first, 1, 0, cand, cand, workerMutex)
          IN  /\ serviceMap' = cand
              /\ u' = nu
              /\ ev' = <<"u_list", "">>
    /\ uPrev' = <<>>
    /\ UNCHANGED <<now, existing, envCount, workerMutex, serviceIntervals, w,
                   wPrev, remapAt,
                   calls, driftSeen, lastRemap>>

\* listContainers() resolves
UListOk ==
    /\ u.pc = "list"
    /\ \E listing \in Listings(existing) :
          LET cand == Populate(listing, <<>>)
              first == Len(serviceMap) = 0
              m == IF first THEN cand ELSE serviceMap
              nu == ULoop(first, 1, 0, m, cand, workerMutex)
          IN  /\ serviceMap' = m
              /\ u' = nu
              /\ ev' = <<"u_list", "">>
    /\ uPrev' = <<>>
    /\ UNCHANGED <<now, existing, envCount, workerMutex, serviceIntervals, w,
                   wPrev, remapAt,
                   calls, driftSeen, lastRemap>>

\* listContainers() rejects: the coroutine's promise rejects, nothing calls
\* _updateMemory again
UListFail ==
    /\ u.pc = "list"
    /\ u' = UFrame("rejected")
    /\ ev' = <<"u_list_fail", "">>
    /\ uPrev' = <<>>
    /\ UNCHANGED <<now, existing, envCount, workerMutex, serviceMap,
                   serviceIntervals, w, wPrev, remapAt,
                   calls, driftSeen, lastRemap>>

\* the inspect() calls of _sortContainersByAge resolve: the rest of
\* _updateServiceMapping, then the loop up to its next yield
UInspectOk ==
    /\ u.pc = "inspect"
    /\ Range(u.containerIds) \subseteq existing
    /\ \E sortedContainerIds \in SortOutcomes(u.containerIds, now) :
          LET m == MapSet(serviceMap, u.rootService, sortedContainerIds)
              due == RemapDue(now, u.serviceIndex)
              nu == ULoop(u.first, u.pos + 1, u.i, m, u.serviceMap, workerMutex)
          IN  /\ serviceMap' = m
              /\ serviceIntervals' = [serviceIntervals EXCEPT ![u.rootService] = due]
              /\ u' = nu
              /\ ev' = <<"u_remap", u.rootService>>
              /\ uPrev' = IF nu.pc = "inspect" THEN <<due, now>> ELSE <<>>
              /\ lastRemap' = [lastRemap EXCEPT ![u.rootService] = sortedContainerIds]
    /\ remapAt' = [remapAt EXCEPT ![u.rootService] = now]
    /\ driftSeen' = IF u.first THEN driftSeen
                    ELSE [driftSeen EXCEPT ![u.rootService] =
                              Range(MapGet(u.serviceMap, u.rootService))]
    /\ UNCHANGED <<now, existing, envCount, workerMutex, w, wPrev, calls>>

\* an inspect() call rejects
UInspectFail ==
    /\ u.pc = "inspect"
    /\ u' = UFrame("rejected")
    /\ ev' = <<"u_inspect_fail", u.rootService>>
    /\ uPrev' = <<>>
    /\ UNCHANGED <<now, existing, envCount, workerMutex, serviceMap,
                   serviceIntervals, w, wPrev, remapAt,
                   calls, driftSeen, lastRemap>>

\* thread_sleep(1000) of the busy wait resolves
UWaitDone ==
    /\ u.pc = "wait"
    /\ u' = StartIteration(workerMutex)
    /\ ev' = <<"u_wait", "">>
    /\ UNCHANGED <<now, existing, envCount, workerMutex, serviceMap,
                   serviceIntervals, w, uPrev, wPrev, remapAt,
                   calls, driftSeen, lastRemap>>

\* thread_sleep(5000) resolves
USleepDone ==
    /\ u.pc = "sleep"
    /\ u' = StartIteration(workerMutex)
    /\ ev' = <<"u_sleep", "">>
    /\ UNCHANGED <<now, existing, envCount, workerMutex, serviceMap,
                   serviceIntervals, w, uPrev, wPrev, remapAt,
                   calls, driftSeen, lastRemap>>

\* ---- _worker ----
\* variant: the comparison the other way round
IsDue_Flipped(intervals, rootService, t) ==
    /\ intervals[rootService] # Undefined
    /\ intervals[rootService] > t

\* variant: every scheduled service is taken, whatever its due time
IsDue_Always(intervals, rootService, t) ==
    intervals[rootService] # Undefined

\* variant: a missing due time counts as a due time in the past
IsDue_Unscheduled(intervals, rootService, t) ==
    intervals[rootService] < t

\* this._config.serviceIntervals[rootService] < new Date()
IsDue(intervals, rootService, t) ==
    /\ intervals[rootService] # Undefined
    /\ intervals[rootService] < t

RECURSIVE NextDue(_, _, _, _)
NextDue(m, intervals, p, t) ==
    IF p > Len(m) THEN 0
    ELSE IF IsDue(intervals, m[p][1], t) THEN p
    ELSE NextDue(m, intervals, p + 1, t)

\* const containerId = containerIds.shift()
Shifted(containerIds) ==
    IF containerIds = <<>> THEN "undefined" ELSE Head(containerIds)

\* variant: the tail is moved to the head
Rotate_TailToHead(containerIds) ==
    IF containerIds = <<>> THEN <<"undefined">>
    ELSE <<containerIds[Len(containerIds)]>>
             \o SubSeq(containerIds, 1, Len(containerIds) - 1)

\* variant: the head is shifted off and not pushed back
Rotate_NoPush(containerIds) ==
    IF containerIds = <<>> THEN <<>> ELSE Tail(containerIds)

\* containerIds.shift(); containerIds.push(containerId)
Rotate(containerIds) ==
    IF containerIds = <<>> THEN <<"undefined">>
    ELSE Append(Tail(containerIds), Head(containerIds))

\* variant: no stagger offset
RolloverDue_NoStagger(t, i) == t + rolloverInterval

\* now + rolloverInterval + serviceRerollDistance * i
RolloverDue(t, i) == t + rolloverInterval + (serviceRerollDistance * i)

\* variant: stop() is called before the due time is advanced and the list
\* rotated
WLoop_CallFirst(p, i, m, intervals, t) ==
    LET q == NextDue(m, intervals, p, t)
    IN  IF q = 0
        THEN [mutex |-> FALSE, map |-> m, intervals |-> intervals, w |-> WIdle,
              prev |-> <<>>, call |-> <<>>]
        ELSE [mutex |-> TRUE,
              map |-> m,
              intervals |-> intervals,
              w |-> [pc |-> "stop", pos |-> q, i |-> i + 1,
                     rootService |-> m[q][1],
                     containerIds |-> Rotate(m[q][2]),
                     containerId |-> Shifted(m[q][2])],
              prev |-> <<RolloverDue(t, i), t>>,
              call |-> <<<<"stop", Shifted(m[q][2])>>>>]

\* the for-of loop of _worker from position p on, up to its next yield
\* (container.stop()) or to its end (this._workerMutex = false)
WLoop(p, i, m, intervals, t) ==
    LET q == NextDue(m, intervals, p, t)
    IN  IF q = 0
        THEN [mutex |-> FALSE, map |-> m, intervals |-> intervals, w |-> WIdle,
              prev |-> <<>>, call |-> <<>>]
        ELSE [mutex |-> TRUE,
              map |-> MapSet(m, m[q][1], Rotate(m[q][2])),
              intervals |-> [intervals EXCEPT ![m[q][1]] = RolloverDue(t, i)],
              w |-> [pc |-> "stop", pos |-> q, i |-> i + 1,
                     rootService |-> m[q][1],
                     containerIds |-> Rotate(m[q][2]),
                     containerId |-> Shifted(m[q][2])],
              prev |-> <<RolloverDue(t, i), t>>,
              call |-> <<<<"stop", Shifted(m[q][2])>>>>]


\* setInterval fires and no pass is in progress: the pass up to its first
\* yield, or the whole pass when no service is due
WTick ==
    /\ ~workerMutex
    /\ LET r == WLoop(1, 0, serviceMap, serviceIntervals, now)
       IN  /\ workerMutex' = r.mutex
           /\ serviceMap' = r.map
           /\ serviceIntervals' = r.intervals
           /\ w' = r.w
           /\ wPrev' = r.prev
           /\ ev' = <<IF r.mutex THEN "w_select" ELSE "w_noop", r.w.rootService>>
           /\ calls' = calls \o r.call
    /\ UNCHANGED <<now, existing, envCount, u, uPrev, remapAt, driftSeen, lastRemap>>

\* variant: a tick that finds the flag set runs a pass all the same
WTickBusy_Reenter ==
    /\ workerMutex
    /\ LET r == WLoop(1, 0, serviceMap, serviceIntervals, now)
       IN  /\ workerMutex' = r.mutex
           /\ serviceMap' = r.map
           /\ serviceIntervals' = r.intervals
           /\ w' = r.w
           /\ wPrev' = r.prev
           /\ calls' = calls \o r.call
    /\ ev' = <<"w_busy", "">>
    /\ UNCHANGED <<now, existing, envCount, u, uPrev, remapAt, driftSeen,
                   lastRemap>>

\* setInterval fires while the flag is set: if (this._workerMutex) return
WTickBusy ==
    /\ workerMutex
    /\ ev' = <<"w_busy", "">>
    /\ UNCHANGED <<now, existing, envCount, workerMutex, serviceMap,
                   serviceIntervals, u, w, uPrev, wPrev, remapAt,
                   calls, driftSeen, lastRemap>>

\* variant: after stop() the loop goes on without calling start()
WStopOk_SkipStart ==
    /\ w.pc = "stop"
    /\ w.containerId \in existing
    /\ LET m == MapSet(serviceMap, w.rootService, w.containerIds)
           r == WLoop(w.pos + 1, w.i, m, serviceIntervals, now)
       IN  /\ workerMutex' = r.mutex
           /\ serviceMap' = r.map
           /\ serviceIntervals' = r.intervals
           /\ w' = r.w
           /\ wPrev' = r.prev
           /\ calls' = calls \o r.call
    /\ ev' = <<"w_stopped", w.rootService>>
    /\ UNCHANGED <<now, existing, envCount, u, uPrev, remapAt, driftSeen,
                   lastRemap>>

\* container.stop() resolves; container.start() is called
WStopOk ==
    /\ w.pc = "stop"
    /\ w.containerId \in existing
    /\ w' = [w EXCEPT !.pc = "start"]
    /\ ev' = <<"w_stopped", w.rootService>>
    /\ calls' = Append(calls, <<"start", w.containerId>>)
    /\ UNCHANGED <<now, existing, envCount, workerMutex, serviceMap,
                   serviceIntervals, u, uPrev, wPrev, remapAt, driftSeen, lastRemap>>

\* variant: a rejected stop() is swallowed and the loop goes on
WStopFail_Continue ==
    /\ w.pc = "stop"
    /\ LET r == WLoop(w.pos + 1, w.i, serviceMap, serviceIntervals, now)
       IN  /\ workerMutex' = r.mutex
           /\ serviceMap' = r.map
           /\ serviceIntervals' = r.intervals
           /\ w' = r.w
           /\ wPrev' = r.prev
           /\ calls' = calls \o r.call
    /\ ev' = <<"w_stop_fail", w.rootService>>
    /\ UNCHANGED <<now, existing, envCount, u, uPrev, remapAt, driftSeen,
                   lastRemap>>

\* container.stop() rejects: the coroutine ends at the yield
WStopFail ==
    /\ w.pc = "stop"
    /\ w' = WIdle
    /\ wPrev' = <<>>
    /\ ev' = <<"w_stop_fail", w.rootService>>
    /\ UNCHANGED <<now, existing, envCount, workerMutex, serviceMap,
                   serviceIntervals, u, uPrev, remapAt,
                   calls, driftSeen, lastRemap>>

\* container.start() resolves: serviceMap.set(rootService, containerIds), then
\* the loop up to its next yield or its end
WStartOk ==
    /\ w.pc = "start"
    /\ w.containerId \in existing
    /\ LET m == MapSet(serviceMap, w.rootService, w.containerIds)
           r == WLoop(w.pos + 1, w.i, m, serviceIntervals, now)
       IN  /\ workerMutex' = r.mutex
           /\ serviceMap' = r.map
           /\ serviceIntervals' = r.intervals
           /\ w' = r.w
           /\ wPrev' = r.prev
           /\ ev' = <<"w_restarted", w.rootService>>
           /\ calls' = calls \o r.call
    /\ UNCHANGED <<now, existing, envCount, u, uPrev, remapAt, driftSeen, lastRemap>>

\* container.start() rejects
WStartFail ==
    /\ w.pc = "start"
    /\ w' = WIdle
    /\ wPrev' = <<>>
    /\ ev' = <<"w_start_fail", w.rootService>>
    /\ UNCHANGED <<now, existing, envCount, workerMutex, serviceMap,
                   serviceIntervals, u, uPrev, remapAt,
                   calls, driftSeen, lastRemap>>

\* ---- the container runtime and the clock ----
AddContainer ==
    /\ envCount < MaxEnv
    /\ \E containerId \in Ids \ existing : existing' = existing \cup {containerId}
    /\ envCount' = envCount + 1
    /\ ev' = <<"env_add", "">>
    /\ UNCHANGED <<now, workerMutex, serviceMap, serviceIntervals, u, w,
                   uPrev, wPrev, remapAt,
                   calls, driftSeen, lastRemap>>

RemoveContainer ==
    /\ envCount < MaxEnv
    /\ \E containerId \in existing : existing' = existing \ {containerId}
    /\ envCount' = envCount + 1
    /\ ev' = <<"env_remove", "">>
    /\ UNCHANGED <<now, workerMutex, serviceMap, serviceIntervals, u, w,
                   uPrev, wPrev, remapAt,
                   calls, driftSeen, lastRemap>>

Tick ==
    /\ now < MaxTime
    /\ now' = now + 1
    /\ ev' = <<"tick", "">>
    /\ UNCHANGED <<existing, envCount, workerMutex, serviceMap,
                   serviceIntervals, u, w, uPrev, wPrev, remapAt,
                   calls, driftSeen, lastRemap>>

Discovery ==
    \/ UListOk
    \/ UListFail
    \/ UInspectOk
    \/ UInspectFail
    \/ UWaitDone
    \/ USleepDone

Worker ==
    \/ WTick
    \/ WTickBusy
    \/ WStopOk
    \/ WStopFail
    \/ WStartOk
    \/ WStartFail

Next ==
    \/ Discovery
    \/ Worker
    \/ AddContainer
    \/ RemoveContainer
    \/ Tick

Spec == Init /\ [][Next]_vars

\* the timers keep firing and every runtime call is answered (resolved or
\* rejected), so each coroutine takes its next step when it has one
FairSpec == Spec /\ WF_vars(Discovery) /\ WF_vars(Worker)

\* ---- a stable fleet: one service with three containers, no failures ----
\* the state after construction with the runtime holding a, b and c
CycleInit ==
    /\ now = 0
    /\ existing = {"a", "b", "c"}
    /\ envCount = 0
    /\ workerMutex = FALSE
    /\ serviceMap = <<>>
    /\ serviceIntervals = [s \in services |-> Undefined]
    /\ u = UFrame("list")
    /\ w = WIdle
    /\ ev = <<"init", "">>
    /\ uPrev = <<>>
    /\ wPrev = <<>>
    /\ remapAt = [s \in services |-> Undefined]
    /\ calls = <<>>
    /\ driftSeen = [s \in services |-> {}]
    /\ lastRemap = [s \in services |-> <<>>]

\* the clock, far enough for three rollover intervals
CycleTick ==
    /\ now < MaxCycleTime
    /\ now' = now + 1
    /\ ev' = <<"tick", "">>
    /\ UNCHANGED <<existing, envCount, workerMutex, serviceMap,
                   serviceIntervals, u, w, uPrev, wPrev, remapAt,
                   calls, driftSeen, lastRemap>>

\* every runtime call resolves and the container set does not change
CycleNext ==
    \/ UListOk
    \/ UInspectOk
    \/ UWaitDone
    \/ USleepDone
    \/ WTick
    \/ WTickBusy
    \/ WStopOk
    \/ WStartOk
    \/ CycleTick

CycleSpec == CycleInit /\ [][CycleNext]_vars

\* ---- an allow-listed service without containers at startup ----
\* the state after construction with the runtime holding a and b of s1 only
LateInit ==
    /\ now = 0
    /\ existing = {"a", "b"}
    /\ envCount = 0
    /\ workerMutex = FALSE
    /\ serviceMap = <<>>
    /\ serviceIntervals = [s \in services |-> Undefined]
    /\ u = UFrame("list")
    /\ w = WIdle
    /\ ev = <<"init", "">>
    /\ uPrev = <<>>
    /\ wPrev = <<>>
    /\ remapAt = [s \in services |-> Undefined]
    /\ calls = <<>>
    /\ driftSeen = [s \in services |-> {}]
    /\ lastRemap = [s \in services |-> <<>>]

LateSpec == LateInit /\ [][Next]_vars

\* ---- the claims ----
Registered == {serviceMap[p][1] : p \in 1..Len(serviceMap)}

\* a worker pass is in progress: the flag is set and the coroutine is at a yield
PassInProgress == workerMutex /\ w.pc # "idle"

\* C1: no discovery remap (a write of serviceMap and serviceIntervals by
\* _updateServiceMapping) takes effect while a worker pass is in progress.
C1_NoRemapDuringWorkerPass ==
    ev[1] = "u_remap" => ~PassInProgress

\* C2: whenever no worker pass is running (none started, or the last one
\* ended, normally or by a failed stop or start), the busy flag is false.
C2_BusyFlagReleased ==
    w.pc = "idle" => ~workerMutex

\* C3: after listContainers() or inspect() failed in a discovery iteration,
\* the discovery loop lists the containers again later.
C3_DiscoveryResumes ==
    (u.pc = "rejected") ~> (u.pc = "list")

\* C4: after a remap that drift caused, the list committed for the service
\* holds exactly the ids of the freshly discovered container set.
C4_RemapCommitsDiscovered ==
    [][(ev'[1] = "u_remap" /\ ~u.first)
          => Range(MapGet(serviceMap', u.rootService))
                 = Range(MapGet(u.serviceMap, u.rootService))]_vars


\* ---- C5 ----
\* the ids discovery found for a service in the pass that takes this step:
\* the listing just returned, or the candidate mapping the coroutine holds
DiscoveredIds(rootService) ==
    IF u.pc = "list" THEN {c \in existing : Label(c) = rootService}
    ELSE IF MapHas(u.serviceMap, rootService)
         THEN Range(MapGet(u.serviceMap, rootService))
         ELSE {}

\* this step belongs to a discovery pass over a non-empty Registry
DriftPassStep ==
    \/ ev'[1] = "u_list" /\ Len(serviceMap) > 0
    \/ ev'[1] = "u_remap" /\ ~u.first

\* the Registry positions this step evaluates
EvaluatedFrom == IF u.pc = "list" THEN 1 ELSE u.pos + 1
EvaluatedTo == IF u'.pc = "inspect" THEN u'.pos ELSE Len(serviceMap')

\* C5: in a discovery pass over a non-empty Registry, the remap procedure is
\* entered for a registered service if and only if some discovered id of it
\* is absent from its committed list; the due time a remap sets is
\* now + initialDebounce + i * serviceRerollDistance; and the pass changes the
\* list and the due time of no service but the one whose remap completes.
C5_DriftTrigger ==
    [][DriftPassStep =>
         /\ \A p \in EvaluatedFrom..EvaluatedTo :
               (u'.pc = "inspect" /\ u'.pos = p /\ u'.rootService = serviceMap'[p][1])
                   <=> (DiscoveredIds(serviceMap'[p][1]) \ Range(serviceMap'[p][2]) # {})
         /\ \A p \in 1..Len(serviceMap) :
               LET s == serviceMap[p][1]
               IN  IF ev'[1] = "u_remap" /\ s = u.rootService
                   THEN serviceIntervals'[s]
                            = now + initialDebounce + (u.serviceIndex * serviceRerollDistance)
                   ELSE /\ serviceMap'[p] = serviceMap[p]
                        /\ serviceIntervals'[s] = serviceIntervals[s]]_vars

\* a pass over a non-empty Registry skipped its first service, which had no
\* drift, and entered the remap of its second
C5_Witness ==
    /\ ev[1] = "u_list"
    /\ u.pc = "inspect"
    /\ ~u.first
    /\ u.pos = 2

\* ---- C6 ----
\* this step makes the worker select a second or later service of its pass
WorkerSelectsLater == ev'[1] = "w_restarted" /\ w'.pc = "stop"

\* this step completes the remap of a second or later service of a pass
RemapCompletesLater == ev'[1] = "u_remap" /\ u.serviceIndex >= 1

\* C6 as stated: the due time given to the k-th service acted upon in a pass
\* exceeds the one given to the (k-1)-th by exactly serviceRerollDistance,
\* also when time passes between the two assignments.
C6_StaggerExact ==
    [][/\ WorkerSelectsLater
            => serviceIntervals'[w'.rootService] = wPrev[1] + serviceRerollDistance
       /\ RemapCompletesLater
            => serviceIntervals'[u.rootService] = uPrev[1] + serviceRerollDistance]_vars

\* C6 amended: it exceeds it by serviceRerollDistance plus the time that
\* passed between the two assignments.
C6_StaggerPlusElapsed ==
    [][/\ WorkerSelectsLater
            => serviceIntervals'[w'.rootService]
                   = wPrev[1] + serviceRerollDistance + (now - wPrev[2])
       /\ RemapCompletesLater
            => serviceIntervals'[u.rootService]
                   = uPrev[1] + serviceRerollDistance + (now - uPrev[2])]_vars

\* the worker has selected the second service of a pass
C6_Witness ==
    /\ ev[1] = "w_restarted"
    /\ w.pc = "stop"
    /\ w.i = 2

\* ---- C7 ----
\* the worker selected a service in the step just taken
JustSelected == ev[1] \in {"w_select", "w_restarted"} /\ w.pc = "stop"

\* C7: when the worker selects a service that was remapped at time t, the
\* time is at least t + initialDebounce.
C7_Debounce ==
    (JustSelected /\ remapAt[w.rootService] # Undefined)
        => now >= remapAt[w.rootService] + initialDebounce

\* the worker has just selected a service that was remapped before
C7_Witness ==
    /\ JustSelected
    /\ remapAt[w.rootService] # Undefined

\* ---- C8 ----
\* new is old with its head moved to the tail
HeadMovedToTail(old, new) ==
    /\ Len(new) = Len(old)
    /\ Len(old) >= 1
    /\ new[Len(new)] = old[1]
    /\ \A k \in 1..(Len(old) - 1) : new[k] = old[k + 1]
    /\ Cardinality(Range(new)) = Len(new)
    /\ Range(new) = Range(old)

\* C8: the list the worker holds from the selection of a service on is that
\* service's committed list with the head moved to the tail, nothing
\* duplicated or dropped; it does not change while stop and start are
\* awaited; and after a successful start it is the committed list, with the
\* restarted id last.
C8_Rotation ==
    [][/\ (ev'[1] \in {"w_select", "w_restarted"} /\ w'.pc = "stop")
            => /\ HeadMovedToTail(MapGet(serviceMap, w'.rootService), w'.containerIds)
               /\ MapGet(serviceMap', w'.rootService) = w'.containerIds
               /\ w'.containerId = Head(MapGet(serviceMap, w'.rootService))
       /\ ev'[1] = "w_stopped"
            => /\ w'.containerIds = w.containerIds
               /\ w'.containerId = w.containerId
       /\ ev'[1] = "w_restarted"
            => /\ MapGet(serviceMap', w.rootService) = w.containerIds
               /\ w.containerIds[Len(w.containerIds)] = w.containerId]_vars

\* the worker has restarted the head of a service that has three containers
C8_Witness ==
    /\ ev = <<"w_restarted", "s1">>
    /\ Len(MapGet(serviceMap, "s1")) = 3

\* ---- C9 ----
\* C9: every change of a service's committed list is a replacement by a
\* discovery remap or a rotation by one element of the list committed just
\* before, and the worker's commit after a restart does not overwrite a list
\* that differs from the one it holds.
C9_ReplaceOrRotateOnly ==
    [][/\ \A p \in 1..Len(serviceMap) :
             serviceMap'[p][2] # serviceMap[p][2]
                 => \/ ev' = <<"u_remap", serviceMap[p][1]>>
                    \/ HeadMovedToTail(serviceMap[p][2], serviceMap'[p][2])
       /\ ev'[1] = "w_restarted"
             => MapGet(serviceMap, w.rootService) = w.containerIds]_vars

\* ---- C10 ----
\* every registered service has a due time, and it is in the future
AllDueInFuture ==
    /\ Len(serviceMap) > 0
    /\ \A s \in Registered :
          serviceIntervals[s] # Undefined /\ serviceIntervals[s] > now

\* C10: a worker tick that finds the flag clear and every registered
\* service's due time in the future issues no stop, changes no list and no
\* due time, and leaves the flag clear.
C10_NoOpWhenIdle ==
    [][(ev'[1] \in {"w_select", "w_noop"} /\ AllDueInFuture)
          => /\ w'.pc = "idle"
             /\ serviceMap' = serviceMap
             /\ serviceIntervals' = serviceIntervals
             /\ ~workerMutex']_vars

\* a worker tick has just run with every due time in the future
C10_Witness ==
    /\ ev[1] = "w_noop"
    /\ AllDueInFuture

\* ---- C11 ----
\* the list with its first k heads moved to the tail, one after the other
RotatedBy(list, k) ==
    [j \in 1..Len(list) |-> list[((j - 1 + k) % Len(list)) + 1]]

\* the number of stop/start pairs issued so far
Pairs == Len(calls) \div 2

\* C11: for a service with n containers and no drift, after k successful due
\* worker passes the stop/start pairs issued are exactly k, the j-th pair is
\* for the j-th id (cyclically) of the list before the first pass, and the
\* committed list is that list rotated k times; so n passes restart each
\* container once, in list order, and return the list to its first order.
C11_RoundRobinCycle ==
    (w.pc = "idle" /\ lastRemap["s1"] # <<>>)
        => LET L0 == lastRemap["s1"]
               n == Len(L0)
           IN  /\ Len(calls) = 2 * Pairs
               /\ \A j \in 1..Pairs :
                     /\ calls[(2 * j) - 1] = <<"stop", L0[((j - 1) % n) + 1]>>
                     /\ calls[2 * j] = <<"start", L0[((j - 1) % n) + 1]>>
               /\ MapGet(serviceMap, "s1") = RotatedBy(L0, Pairs)
               /\ Pairs = n => MapGet(serviceMap, "s1") = L0

\* three passes over a service with three containers have completed
C11_Witness ==
    /\ w.pc = "idle"
    /\ Len(lastRemap["s1"]) = 3
    /\ Len(calls) = 6
    /\ MapGet(serviceMap, "s1") = lastRemap["s1"]

\* ---- C12 ----
\* x comes before y in the order of ids
IdBefore(x, y) ==
    LET order == <<"a", "b", "c", "d">>
        at(id) == CHOOSE k \in 1..Len(order) : order[k] = id
    IN  at(x) < at(y)

\* oldest start timestamp first, ties by id
OldestFirst(list) ==
    \A j, k \in 1..Len(list) :
        j < k => \/ StartedAt(list[j]) < StartedAt(list[k])
                 \/ /\ StartedAt(list[j]) = StartedAt(list[k])
                    /\ IdBefore(list[j], list[k])

\* C12: the list a remap commits for a service is ordered by the containers'
\* inspected start timestamps, oldest first, ties broken by id.
C12_AgeOrdering ==
    ev[1] = "u_remap" => OldestFirst(lastRemap[ev[2]])

\* ---- C13 ----
\* C13: at most one worker pass is in progress: a pass starts only when none
\* is in progress and the flag is clear, and the flag is set for as long as
\* the pass is at a yield; a tick that fires while the flag is set changes
\* neither the Registry (lists and due times) nor the flag nor the pass in
\* progress, and issues no stop or start.
C13_ReentrancyGuard ==
    [][/\ ev'[1] = "w_busy"
            => /\ serviceMap' = serviceMap
               /\ serviceIntervals' = serviceIntervals
               /\ workerMutex' = workerMutex
               /\ w' = w
               /\ calls' = calls
       /\ ev'[1] \in {"w_select", "w_noop"}
            => /\ w.pc = "idle"
               /\ ~workerMutex
       /\ w'.pc # "idle" => workerMutex']_vars

\* a tick fired during a pass that awaits stop(), with a service due
C13_Witness ==
    /\ ev[1] = "w_busy"
    /\ w.pc = "stop"
    /\ \E s \in Registered : IsDue(serviceIntervals, s, now)

\* ---- C14 ----
\* the step just taken is a rejected stop() or start()
CallFailed == ev[1] \in {"w_stop_fail", "w_start_fail"}

\* C14: the step in which stop() or start() fails ends the pass: it changes
\* no list and no due time, issues no stop or start and leaves the worker
\* with no service selected; and the worker, its pass aborted, selects no
\* service and issues no call afterwards.
C14_FailureAbortsPass ==
    [][/\ CallFailed'
            => /\ serviceMap' = serviceMap
               /\ serviceIntervals' = serviceIntervals
               /\ calls' = calls
               /\ w' = WIdle
       /\ (w.pc = "idle" /\ workerMutex)
            => /\ w' = w
               /\ calls' = calls]_vars

\* stop() or start() failed for a service while a later service was due
C14_Witness ==
    /\ CallFailed
    /\ \E s \in Registered :
          /\ MapIndex(serviceMap, s) > MapIndex(serviceMap, ev[2])
          /\ IsDue(serviceIntervals, s, now)

\* ---- C15 ----
\* the log is stop x, start x, stop y, start y, ... (the last stop may still
\* be without its start)
StopStartAlternate(log) ==
    \A j \in 1..Len(log) :
        IF j % 2 = 1 THEN log[j][1] = "stop"
        ELSE log[j] = <<"start", log[j - 1][2]>>

\* C15: a step issues at most one call; a stop is issued for the head id of
\* a service when the pass begins or when the start of the service before
\* has completed, and for no other id; a start is issued when the stop of
\* the same id has completed; so the calls are stop x, start x, stop y,
\* start y, ... and the one container the worker awaits is the only one
\* between stop issued and start completed.
C15_SequentialRestarts ==
    [][/\ StopStartAlternate(calls')
       /\ Len(calls') <= Len(calls) + 1
       /\ Len(calls') = Len(calls) + 1
            => LET call == calls'[Len(calls')]
               IN  IF call[1] = "stop"
                   THEN /\ ev'[1] \in {"w_select", "w_restarted"}
                        /\ w.pc \in {"idle", "start"}
                        /\ w'.pc = "stop"
                        /\ call[2] = w'.containerId
                        /\ call[2] = Shifted(MapGet(serviceMap, w'.rootService))
                        /\ Len(calls) % 2 = 0
                   ELSE /\ ev'[1] = "w_stopped"
                        /\ w.pc = "stop"
                        /\ w'.pc = "start"
                        /\ call[2] = w.containerId
                        /\ calls[Len(calls)] = <<"stop", w.containerId>>
       /\ Len(calls') = Len(calls) => w'.pc \in {w.pc, "idle"}]_vars

\* the stop of a second service was issued after the start of the first
C15_Witness ==
    /\ ev[1] = "w_restarted"
    /\ w.pc = "stop"
    /\ Len(calls) = 3
    /\ calls[2][1] = "start"

\* ---- C16 ----
\* C16: a discovery iteration begins (with the busy wait or with
\* listContainers()) only when the fixed sleep of the iteration before has
\* ended, the first-run iteration included.
C16_SleepAfterEveryIteration ==
    [][(ev'[1] \in {"u_list", "u_remap", "u_sleep"} /\ u'.pc \in {"list", "wait"})
          => ev'[1] = "u_sleep"]_vars

\* ---- C17 ----
\* the services of the Registry, in the Map's order
Keys(m) == [p \in 1..Len(m) |-> m[p][1]]

\* C17: once the Registry is non-empty, no step adds a service to it or
\* removes one.
C17_ServiceSetFixed ==
    [][Len(serviceMap) > 0 => Keys(serviceMap') = Keys(serviceMap)]_vars

\* a discovery pass over a seeded Registry has listed a container of an
\* allow-listed service that is not registered
C17_Witness ==
    /\ Len(serviceMap) > 0
    /\ ev[1] = "u_list"
    /\ u.pc = "sleep"
    /\ \E c \in existing : Label(c) \in services \ Registered

\* a discovery pass over a seeded Registry has found no container of a
\* registered service
C17_WitnessLoss ==
    /\ Len(serviceMap) > 0
    /\ ev[1] = "u_list"
    /\ u.pc = "sleep"
    /\ \E s \in Registered : \A c \in existing : Label(c) # s

\* ---- C18 ----
\* C18: a drift remap of a service settles the drift it was made for: no
\* later discovery pass enters the remap of that service again for the same
\* discovered id set (so the service is not remapped, and its due time not
\* pushed into the future, on every pass that follows a change of the
\* container set).
C18_DriftRemapSettles ==
    (u.pc = "inspect" /\ ~u.first)
        => Range(MapGet(u.serviceMap, u.rootService)) # driftSeen[u.rootService]

\* ---- C19 ----
\* C19: the first-run iteration makes the candidate mapping the Registry
\* while no service has a due time yet, and the worker selects (rotates,
\* stops) only a service whose due time has been assigned.
C19_NoRestartBeforeSchedule ==
    [][/\ (ev'[1] = "u_list" /\ Len(serviceMap) = 0 /\ Len(serviceMap') > 0)
            => \A s \in services : serviceIntervals'[s] = Undefined
       /\ (ev'[1] \in {"w_select", "w_restarted"} /\ w'.pc = "stop")
            => /\ serviceIntervals[w'.rootService] # Undefined
               /\ remapAt[w'.rootService] # Undefined
       /\ \A p \in 1..Len(serviceMap) :
             (serviceIntervals[serviceMap[p][1]] = Undefined
                  /\ ev'[1] \in {"w_select", "w_restarted", "w_noop"})
                 => serviceMap'[p] = serviceMap[p]]_vars

\* the worker has selected a service while the seeding still awaits the
\* inspect() calls of another service, which has no due time yet
C19_Witness ==
    /\ JustSelected
    /\ u.pc = "inspect"
    /\ u.first
    /\ \E s \in Registered : serviceIntervals[s] = Undefined

====
